---- MODULE Spec2Model ----
(***************************************************************************)
(* PCT-MCS (src/pct.py, src/db.py): the registration transaction, the      *)
(* role gate, card generation, the public verification endpoint, the       *)
(* health and login endpoints, as a state machine over the record store,   *)
(* its open sessions, the photo directory and the requests that are in     *)
(* flight on the worker threads.                                           *)
(*                                                                         *)
(* Strings the code takes apart are sequences of their parts: a file name  *)
(* is the sequence of its dot-separated parts, an Authorization header the *)
(* sequence of its space-separated words, a date string <<"iso", day>> or  *)
(* something fromisoformat refuses.  Dates are day numbers.  The profile   *)
(* fields name, town, zone and province are never supplied by the modelled *)
(* requests, so every member carries their defaults and they are left out. *)
(***************************************************************************)
EXTENDS Integers, Sequences, FiniteSets, TLC

\* ------------------------------------------------------------------ bounds
MaxReq == 2
MaxDay == 1
NumNrc == 2
NumHex == 2
YearLen == 2
MaxOpen == 1

Req  == 1..MaxReq          \* worker threads, each handling one request at a time
Days == 0..MaxDay          \* values of date.today()
NRC  == 1..NumNrc          \* national registration card numbers
Hex  == 1..NumHex          \* values of uuid.uuid4().hex[:6].upper()

\* ------------------------------------------------------- program constants
NoNrc   == 0               \* request.form.get('nrc') is None
NoPhoto == << >>           \* no 'id_photo' part (or one with an empty file name)
NoDate  == << >>           \* no 'membership_end_date' field
NoUid   == << >>
NoUser  == "None"

ALLOWED_EXTENSIONS == {"png", "jpg", "jpeg"}
UPLOAD_DIR == "/tmp/photos"

\* '2028-12-31', a day after every modelled day
DefaultEndDate == <<"iso", MaxDay + 1>>

Statuses == {"Active", "Expired", "Suspended"}

\* admin_users: username -> role.  'superadmin' is created by create_db_tables;
\* the other two stand for accounts of the remaining roles.
AdminUser ==
    [superadmin |-> "SuperAdmin", padmin |-> "ProvincialAdmin", clerk |-> "DataEntry"]

RegisterRoles == {"SuperAdmin", "ProvincialAdmin", "DataEntry"}
SearchRoles   == {"SuperAdmin", "ProvincialAdmin", "DataEntry"}
ReportRoles   == {"SuperAdmin", "ProvincialAdmin"}

GatedOps == {"register", "search", "report"}

\* the password each account was given with set_password
Password ==
    [superadmin |-> "PCT_InitialSecure2025", padmin |-> "pw-padmin", clerk |-> "pw-clerk"]

\* user.check_password(password): the hash of the input against the stored hash
check_password(username, password) == password = Password[username]

\* the decorator line of register_member pasted unchanged above region_report
required_roles_ReportOpen(op) ==
    {"SuperAdmin", "ProvincialAdmin", "DataEntry"}

required_roles(op) ==
    CASE op = "register" -> RegisterRoles
      [] op = "search"   -> SearchRoles
      [] op = "report"   -> ReportRoles

\* ------------------------------------------------------------------ inputs
Headers ==
    {<< >>, <<"Basic", "superadmin">>}
        \cup {<<"Bearer", t>> : t \in (DOMAIN AdminUser) \cup {"ghost"}}

FileNames ==
    {<<"id", "png">>, <<"id", "JPG">>, <<"id", "Jpeg">>, <<"id", "gif">>,
     <<"id">>, <<"id", "jpg", "exe">>}

PhotoInputs == {NoPhoto} \cup FileNames
NrcInputs   == {NoNrc} \cup NRC
DateInputs  == {NoDate, <<"garbage">>} \cup {<<"iso", d>> : d \in 0..(MaxDay - 1)}
StatusFilters == {"any"} \cup Statuses
UsernameInputs == (DOMAIN AdminUser) \cup {"ghost"}
PasswordInputs == {"PCT_InitialSecure2025", "pw-clerk", "guess"}

\* ----------------------------------------------------------------- helpers
\* str.lower() on the extensions that occur
Lower(s) ==
    CASE s = "JPG"  -> "jpg"
      [] s = "PNG"  -> "png"
      [] s = "Jpeg" -> "jpeg"
      [] OTHER      -> s

\* '.' in filename and filename.rsplit('.', 1)[1].lower() in ALLOWED_EXTENSIONS
allowed_file(filename) ==
    /\ Len(filename) >= 2
    /\ Lower(filename[Len(filename)]) \in ALLOWED_EXTENSIONS

Year(d) == d \div YearLen

\* f"PCT-{date.today().year}-{uuid.uuid4().hex[:6].upper()}"
UniqueId(d, h) == <<"PCT", Year(d), h>>

\* os.path.join(UPLOAD_DIR, secure_filename(f"{unique_id}_photo.jpg")): the
\* column holds the file name, the directory entry is the joined path
PhotoFilename(uid) == <<uid, "_photo", "jpg">>
PhotoPath(fname) == <<UPLOAD_DIR, fname>>

\* date.fromisoformat: the day, or ValueError
IsIsoDate(s) == Len(s) = 2 /\ s[1] = "iso"
FromIso(s) == s[2]

\* data.get('membership_end_date', '2028-12-31')
EndDateStr(field) == IF field = NoDate THEN DefaultEndDate ELSE field

\* jsonify({"error": msg}, code): two positional arguments are serialised as
\* the JSON list [{"error": msg}, code]; the response status stays 200
JsonifyError(msg, detail, code) ==
    [http |-> 200, code |-> code, error |-> msg, data |-> detail]

\* return jsonify({...}), status   (status 200 when none is given)
JsonifyData(data, status) ==
    [http |-> status, code |-> 0, error |-> "", data |-> data]

\* return jsonify({"error": msg}), status: the status is on the status line
JsonifyFailure(msg, detail, status) ==
    [http |-> status, code |-> 0, error |-> msg, data |-> detail]

\* an exception that leaves the view function: Flask answers 500
Unhandled(exc) ==
    [http |-> 500, code |-> 0, error |-> "unhandled exception", data |-> <<exc>>]

NoResponse == [http |-> 0, code |-> 0, error |-> "", data |-> << >>]

\* ------------------------------------------------------------------- state
VARIABLES
    members,     \* campaign_members: the committed rows
    blobs,       \* UPLOAD_DIR: path -> bytes of the file stored there
    today,       \* date.today()
    req,         \* per worker: where its request is and what it holds
    out,         \* the response the last step sent, and for which operation
    succeeded,   \* history: per nrc, how many register requests were answered 201
    attempted,   \* history: the nrc's for which a well-formed register ran to its end
    open_sessions \* Session() objects created and not yet closed

vars == <<members, blobs, today, req, out, succeeded, attempted, open_sessions>>

Idle == [pc |-> "idle", user |-> NoUser, nrc |-> NoNrc, user_id |-> NoUid]

NoOut == [op |-> "none", by |-> "none", resp |-> NoResponse]

Sent(op, by, resp) == [op |-> op, by |-> by, resp |-> resp]

Init ==
    /\ members = {}
    /\ blobs = << >>
    /\ today = 0
    /\ req = [r \in Req |-> Idle]
    /\ out = NoOut
    /\ succeeded = [n \in NRC |-> 0]
    /\ attempted = {}
    /\ open_sessions = 0

\* the lookup filters on a value the form never holds, and finds nothing
ByNrcWrongKey(nrc) == {m \in members : m.nrc = NoNrc}

\* session.query(CampaignMember).filter_by(nrc=nrc).first()
ByNrc(nrc) == {m \in members : m.nrc = nrc}
\* session.query(CampaignMember).filter_by(user_id=user_id).first()
ByUserId(uid) == {m \in members : m.user_id = uid}

\* photo_file.save(filepath): creates the file or replaces its content
SaveFile(path, bytes) ==
    [p \in (DOMAIN blobs) \cup {path} |-> IF p = path THEN bytes ELSE blobs[p]]

\* a uniqueness constraint of campaign_members refuses the INSERT at commit:
\* user_id (db.py line 30) and nrc (db.py line 32) are both unique=True
UniqueViolation(row) ==
    \/ ByNrc(row.nrc) # {}
    \/ ByUserId(row.user_id) # {}

\* CampaignMember(...) as register_member builds it
NewMember(uid, nrc, end) ==
    [user_id          |-> uid,
     nrc              |-> nrc,
     membership_start |-> today,
     membership_end   |-> end,
     status           |-> "Active",
     photo_filename   |-> PhotoFilename(uid),
     last_modified    |-> today]

\* the bytes of the uploaded file: a portrait of the person registered
PhotoBytes(nrc) == <<"portrait", nrc>>

Finish(r) == req' = [req EXCEPT ![r] = Idle]

\* ---------------------------------------------------------- the role gate
\* decorated_function, for a request to the gated operation op carrying the
\* Authorization header h
Gate(r, op, h) ==
    /\ req[r].pc = "idle"
    /\ UNCHANGED <<members, blobs, today, succeeded, attempted, open_sessions>>
    /\ IF h = << >> \/ h[1] # "Bearer"
       THEN /\ out' = Sent(op, "gate",
                        JsonifyError("Authorization token is missing or invalid.", << >>, 401))
            /\ UNCHANGED req
       ELSE LET auth_token == h[2] IN
            IF auth_token \notin DOMAIN AdminUser
            THEN /\ out' = Sent(op, "gate",
                             JsonifyError("User not authenticated.", << >>, 401))
                 /\ UNCHANGED req
            ELSE IF AdminUser[auth_token] \notin required_roles(op)
            THEN /\ out' = Sent(op, "gate",
                             JsonifyError("Access Forbidden.", <<AdminUser[auth_token]>>, 403))
                 /\ UNCHANGED req
            ELSE /\ req' = [req EXCEPT ![r] = [Idle EXCEPT !.pc = op, !.user = auth_token]]
                 /\ out' = NoOut

\* the AdminUser query of the gate raises OperationalError: nothing around it
\* catches, so the exception leaves the view function, and session.close() on
\* the next line is not reached
GateStoreFail(r, op, h) ==
    /\ req[r].pc = "idle"
    /\ h # << >>
    /\ h[1] = "Bearer"
    /\ out' = Sent(op, "gate", Unhandled("OperationalError"))
    /\ UNCHANGED <<members, blobs, today, req, succeeded, attempted>>
    /\ open_sessions < MaxOpen
    /\ open_sessions' = open_sessions + 1

\* ------------------------------------------------------------ registration
\* register_member up to the extension check: Session() (line 129), the
\* missing-data check, the duplicate lookup, then allowed_file.  A return runs
\* the finally clause, which closes the session; otherwise it stays open
RegCheck(r, nrc, photo) ==
    /\ req[r].pc = "register"
    /\ UNCHANGED <<members, blobs, today, succeeded>>
    /\ IF nrc = NoNrc \/ photo = NoPhoto
       THEN /\ out' = Sent("register", "body",
                        JsonifyError("Missing required data (NRC or Photo ID).", << >>, 400))
            /\ Finish(r)
            /\ UNCHANGED <<attempted, open_sessions>>
       ELSE IF ByNrc(nrc) # {}
       THEN /\ out' = Sent("register", "body",
                        JsonifyError("NRC already exists. Cannot create duplicate member.", << >>, 409))
            /\ Finish(r)
            /\ attempted' = IF allowed_file(photo) THEN attempted \cup {nrc} ELSE attempted
            /\ UNCHANGED open_sessions
       ELSE IF ~allowed_file(photo)
       THEN /\ out' = Sent("register", "body",
                        JsonifyError("Invalid photo file type. Must be PNG, JPG, or JPEG.", << >>, 400))
            /\ Finish(r)
            /\ UNCHANGED <<attempted, open_sessions>>
       ELSE /\ req' = [req EXCEPT ![r] = [Idle EXCEPT !.pc = "save", !.nrc = nrc]]
            /\ out' = NoOut
            /\ open_sessions' = open_sessions + 1
            /\ UNCHANGED attempted

\* the duplicate lookup raises OperationalError: rollback, "unavailable"
RegCheckStoreFail(r, nrc, photo) ==
    /\ req[r].pc = "register"
    /\ nrc # NoNrc
    /\ photo # NoPhoto
    /\ out' = Sent("register", "body",
                   JsonifyError("Database is unavailable. Cannot register member.", << >>, 500))
    /\ Finish(r)
    /\ UNCHANGED <<members, blobs, today, succeeded, attempted, open_sessions>>

\* unique_id is drawn and the photo is written under the name made from it
RegSave(r, h) ==
    /\ req[r].pc = "save"
    /\ LET unique_id == UniqueId(today, h) IN
         /\ blobs' = SaveFile(PhotoPath(PhotoFilename(unique_id)), PhotoBytes(req[r].nrc))
         /\ req' = [req EXCEPT ![r].pc = "commit", ![r].user_id = unique_id]
    /\ out' = NoOut
    /\ UNCHANGED <<members, today, succeeded, attempted, open_sessions>>

\* the row is built (date.fromisoformat may raise ValueError), added and
\* committed; any exception is rolled back and answered "Internal Server Error"
RegCommit(r, field) ==
    /\ req[r].pc = "commit"
    /\ UNCHANGED <<blobs, today>>
    /\ open_sessions' = open_sessions - 1
    /\ Finish(r)
    /\ LET end_date_str == EndDateStr(field) IN
       IF ~IsIsoDate(end_date_str)
       THEN /\ out' = Sent("register", "body",
                        JsonifyError("Internal Server Error", <<"ValueError">>, 500))
            /\ UNCHANGED <<members, succeeded, attempted>>
       ELSE LET new_member == NewMember(req[r].user_id, req[r].nrc, FromIso(end_date_str)) IN
            /\ attempted' = attempted \cup {req[r].nrc}
            /\ IF UniqueViolation(new_member)
               THEN /\ out' = Sent("register", "body",
                                JsonifyError("Internal Server Error", <<"IntegrityError">>, 500))
                    /\ UNCHANGED <<members, succeeded>>
               ELSE /\ members' = members \cup {new_member}
                    /\ succeeded' = [succeeded EXCEPT ![req[r].nrc] = @ + 1]
                    /\ out' = Sent("register", "body",
                                JsonifyData(<<req[r].user_id>>, 201))

\* the commit raises OperationalError: rollback, "unavailable"
RegCommitStoreFail(r, field) ==
    /\ req[r].pc = "commit"
    /\ IsIsoDate(EndDateStr(field))
    /\ out' = Sent("register", "body",
                   JsonifyError("Database is unavailable. Cannot register member.", << >>, 500))
    /\ Finish(r)
    /\ UNCHANGED <<members, blobs, today, succeeded, attempted>>
    /\ open_sessions' = open_sessions - 1

\* ------------------------------------------------------- directory queries
\* one row of member_search's result list
Summary(m) ==
    [user_id |-> m.user_id, nrc |-> m.nrc, status |-> m.status,
     membership_end |-> m.membership_end]

\* member_search with the optional status filter
Search(r, filter) ==
    /\ req[r].pc = "search"
    /\ LET rows == {m \in members : filter = "any" \/ m.status = filter} IN
         out' = Sent("search", "body",
                     JsonifyData(<<AdminUser[req[r].user], Cardinality(rows),
                                   {Summary(m) : m \in rows}>>, 200))
    /\ Finish(r)
    /\ UNCHANGED <<members, blobs, today, succeeded, attempted, open_sessions>>

SearchStoreFail(r) ==
    /\ req[r].pc = "search"
    /\ out' = Sent("search", "body",
                   JsonifyError("Database is unavailable. Cannot perform search.", << >>, 500))
    /\ Finish(r)
    /\ UNCHANGED <<members, blobs, today, succeeded, attempted, open_sessions>>

\* region_report: the counts per status of the one province, and their Total
RegionSummary ==
    [k \in {m.status : m \in members} \cup {"Total"} |->
        IF k = "Total" THEN Cardinality(members)
        ELSE Cardinality({m \in members : m.status = k})]

Report(r) ==
    /\ req[r].pc = "report"
    /\ out' = Sent("report", "body",
                   JsonifyData(<<AdminUser[req[r].user],
                                 IF members = {} THEN << >> ELSE RegionSummary>>, 200))
    /\ Finish(r)
    /\ UNCHANGED <<members, blobs, today, succeeded, attempted, open_sessions>>

ReportStoreFail(r) ==
    /\ req[r].pc = "report"
    /\ out' = Sent("report", "body",
                   JsonifyError("Database is unavailable. Cannot generate report.", << >>, 500))
    /\ Finish(r)
    /\ UNCHANGED <<members, blobs, today, succeeded, attempted, open_sessions>>

\* ------------------------------------------------------------ public reads
\* the <user_id> of the URL: an id of the allocator's format, or another string
UserIdInputs == {UniqueId(d, h) : d \in Days, h \in Hex} \cup {<<"UNKNOWN-ID">>}

\* the PDF: the member's fields, the QR text, and the photo when its file exists
RenderCard(m) ==
    <<"pdf", m.user_id, m.nrc, m.membership_end,
      <<"PCT-VERIFY", m.user_id, "STATUS", m.status, "EXPIRY", m.membership_end>>,
      IF PhotoPath(m.photo_filename) \in DOMAIN blobs
      THEN blobs[PhotoPath(m.photo_filename)]
      ELSE <<"Photo File Missing">> >>

\* the status test left out
generate_member_card_NoStatusCheck(user_id) ==
    /\ out' = Sent("card", "body",
           IF ByUserId(user_id) = {}
           THEN JsonifyError("Member not found.", << >>, 404)
           ELSE LET member == CHOOSE m \in ByUserId(user_id) : TRUE IN
                JsonifyData(RenderCard(member), 200))
    /\ UNCHANGED <<members, blobs, today, req, succeeded, attempted, open_sessions>>

generate_member_card(user_id) ==
    /\ out' = Sent("card", "body",
           IF ByUserId(user_id) = {}
           THEN JsonifyError("Member not found.", << >>, 404)
           ELSE LET member == CHOOSE m \in ByUserId(user_id) : TRUE IN
                IF member.status # "Active"
                THEN JsonifyError("Card generation failed: Member status is not Active.",
                                  <<member.status>>, 403)
                ELSE JsonifyData(RenderCard(member), 200))
    /\ UNCHANGED <<members, blobs, today, req, succeeded, attempted, open_sessions>>

CardStoreFail(user_id) ==
    /\ out' = Sent("card", "body",
                   JsonifyError("Database is unavailable. Cannot generate PDF.", << >>, 500))
    /\ UNCHANGED <<members, blobs, today, req, succeeded, attempted, open_sessions>>

\* membership_end > date.today(): the last day of the membership is refused
is_active_Strict(member) == member.status = "Active" /\ member.membership_end > today

\* the status test left out
is_active_DateOnly(member) == member.membership_end >= today

\* member.status == 'Active' and member.membership_end >= date.today()
is_active(member) == member.status = "Active" /\ member.membership_end >= today

\* the row of a member found out of date is marked Expired while it is verified
verify_member_ExpiresLapsed(user_id) ==
    /\ out' = Sent("verify", "body",
           IF ByUserId(user_id) = {}
           THEN JsonifyError("ID not found in system.", << >>, 404)
           ELSE LET member == CHOOSE m \in ByUserId(user_id) : TRUE IN
                JsonifyData(<<member.user_id, member.status, member.membership_end,
                              IF is_active(member) THEN "AUTHENTICATED" ELSE "EXPIRED/INACTIVE">>, 200))
    /\ members' = {IF m.user_id = user_id /\ m.membership_end < today
                   THEN [m EXCEPT !.status = "Expired"] ELSE m : m \in members}
    /\ UNCHANGED <<blobs, today, req, succeeded, attempted, open_sessions>>

VerificationResult(member) ==
    IF is_active(member) THEN "AUTHENTICATED" ELSE "EXPIRED/INACTIVE"

verify_member(user_id) ==
    /\ out' = Sent("verify", "body",
           IF ByUserId(user_id) = {}
           THEN JsonifyError("ID not found in system.", << >>, 404)
           ELSE LET member == CHOOSE m \in ByUserId(user_id) : TRUE IN
                JsonifyData(<<member.user_id, member.status, member.membership_end,
                              VerificationResult(member)>>, 200))
    /\ UNCHANGED <<members, blobs, today, req, succeeded, attempted, open_sessions>>

VerifyStoreFail(user_id) ==
    /\ out' = Sent("verify", "body",
                   JsonifyError("Database is unavailable. Cannot verify ID.", << >>, 500))
    /\ UNCHANGED <<members, blobs, today, req, succeeded, attempted, open_sessions>>

\* ------------------------------------------------------- health and login
\* home: the member count, the session closed by the finally clause
home ==
    /\ out' = Sent("home", "body", JsonifyData(<<"online", Cardinality(members)>>, 200))
    /\ UNCHANGED <<members, blobs, today, req, succeeded, attempted, open_sessions>>

HomeStoreFail ==
    /\ out' = Sent("home", "body",
                   JsonifyFailure("Database Operational Error: Cannot connect or tables not created.",
                                  <<"offline/db-error">>, 500))
    /\ UNCHANGED <<members, blobs, today, req, succeeded, attempted, open_sessions>>

\* admin_login: the account's role and the username as the token, or 401
admin_login(username, password) ==
    /\ out' = Sent("login", "body",
           IF username \in DOMAIN AdminUser /\ check_password(username, password)
           THEN JsonifyData(<<"Login successful.", AdminUser[username], username>>, 200)
           ELSE JsonifyFailure("Invalid credentials. Authentication Failed.", << >>, 401))
    /\ UNCHANGED <<members, blobs, today, req, succeeded, attempted, open_sessions>>

LoginStoreFail(username) ==
    /\ out' = Sent("login", "body",
                   JsonifyFailure("Database error during login. Check server logs.", << >>, 500))
    /\ UNCHANGED <<members, blobs, today, req, succeeded, attempted, open_sessions>>

\* ------------------------------------------------------------- environment
\* midnight passes
Tick ==
    /\ today < MaxDay
    /\ today' = today + 1
    /\ out' = NoOut
    /\ UNCHANGED <<members, blobs, req, succeeded, attempted, open_sessions>>

\* the status column is changed out of band: no endpoint writes it after the
\* INSERT.  An Active member is suspended, or expired by a periodic job.
SetStatus(m, s) ==
    /\ m \in members
    /\ m.status = "Active"
    /\ s \in {"Suspended", "Expired"}
    /\ members' = (members \ {m}) \cup {[m EXCEPT !.status = s]}
    /\ out' = NoOut
    /\ UNCHANGED <<blobs, today, req, succeeded, attempted, open_sessions>>

\* every request of every kind, by every worker, and the environment
Next ==
    \/ \E r \in Req, op \in GatedOps, h \in Headers : Gate(r, op, h)
    \/ \E r \in Req, op \in GatedOps, h \in Headers : GateStoreFail(r, op, h)
    \/ \E r \in Req, nrc \in NrcInputs, photo \in PhotoInputs : RegCheck(r, nrc, photo)
    \/ \E r \in Req, nrc \in NrcInputs, photo \in PhotoInputs : RegCheckStoreFail(r, nrc, photo)
    \/ \E r \in Req, h \in Hex : RegSave(r, h)
    \/ \E r \in Req, field \in DateInputs : RegCommit(r, field)
    \/ \E r \in Req, field \in DateInputs : RegCommitStoreFail(r, field)
    \/ \E r \in Req, filter \in StatusFilters : Search(r, filter)
    \/ \E r \in Req : SearchStoreFail(r)
    \/ \E r \in Req : Report(r)
    \/ \E r \in Req : ReportStoreFail(r)
    \/ \E user_id \in UserIdInputs : generate_member_card(user_id)
    \/ \E user_id \in UserIdInputs : CardStoreFail(user_id)
    \/ \E user_id \in UserIdInputs : verify_member(user_id)
    \/ \E user_id \in UserIdInputs : VerifyStoreFail(user_id)
    \/ home
    \/ HomeStoreFail
    \/ \E username \in UsernameInputs, password \in PasswordInputs : admin_login(username, password)
    \/ \E username \in UsernameInputs : LoginStoreFail(username)
    \/ Tick
    \/ \E m \in members, s \in Statuses : SetStatus(m, s)

Spec == Init /\ [][Next]_vars

\* Concurrent registration: every worker serves POST /members/register
NextRegister ==
    \/ \E r \in Req, h \in Headers : Gate(r, "register", h)
    \/ \E r \in Req, h \in Headers : GateStoreFail(r, "register", h)
    \/ \E r \in Req, nrc \in NrcInputs, photo \in PhotoInputs : RegCheck(r, nrc, photo)
    \/ \E r \in Req, nrc \in NrcInputs, photo \in PhotoInputs : RegCheckStoreFail(r, nrc, photo)
    \/ \E r \in Req, h \in Hex : RegSave(r, h)
    \/ \E r \in Req, field \in DateInputs : RegCommit(r, field)
    \/ \E r \in Req, field \in DateInputs : RegCommitStoreFail(r, field)

SpecRegister == Init /\ [][NextRegister]_vars

\* The gate in front of the three gated operations, and the two directory
\* queries behind it
NextAccess ==
    \/ \E r \in Req, op \in GatedOps, h \in Headers : Gate(r, op, h)
    \/ \E r \in Req, op \in GatedOps, h \in Headers : GateStoreFail(r, op, h)
    \/ \E r \in Req, filter \in StatusFilters : Search(r, filter)
    \/ \E r \in Req : SearchStoreFail(r)
    \/ \E r \in Req : Report(r)
    \/ \E r \in Req : ReportStoreFail(r)

SpecAccess == Init /\ [][NextAccess]_vars

\* The life of a member record: requests are served one after the other by the
\* first worker; the superadmin registers the member with the first national
\* id, who is verified and given cards while days pass and the status is
\* changed out of band
FirstWorker == {r \in Req : \A q \in Req : r <= q}

NextLifecycle ==
    \/ \E r \in FirstWorker : Gate(r, "register", <<"Bearer", "superadmin">>)
    \/ \E r \in FirstWorker, nrc \in {NoNrc, 1}, photo \in PhotoInputs : RegCheck(r, nrc, photo)
    \/ \E r \in FirstWorker, h \in Hex : RegSave(r, h)
    \/ \E r \in FirstWorker, field \in DateInputs : RegCommit(r, field)
    \/ \E user_id \in UserIdInputs : generate_member_card(user_id)
    \/ \E user_id \in UserIdInputs : CardStoreFail(user_id)
    \/ \E user_id \in UserIdInputs : verify_member(user_id)
    \/ \E user_id \in UserIdInputs : VerifyStoreFail(user_id)
    \/ Tick
    \/ \E m \in members, s \in Statuses : SetStatus(m, s)

SpecLifecycle == Init /\ [][NextLifecycle]_vars

\* The whole service, one request at a time: every endpoint with every input,
\* the record store failing at any of its accesses, and days passing.  No
\* endpoint writes the status column, so every row here stays Active
NextService ==
    \/ \E r \in FirstWorker, op \in GatedOps, h \in Headers : Gate(r, op, h)
    \/ \E r \in FirstWorker, op \in GatedOps, h \in Headers : GateStoreFail(r, op, h)
    \/ \E r \in FirstWorker, nrc \in NrcInputs, photo \in PhotoInputs : RegCheck(r, nrc, photo)
    \/ \E r \in FirstWorker, nrc \in NrcInputs, photo \in PhotoInputs : RegCheckStoreFail(r, nrc, photo)
    \/ \E r \in FirstWorker, h \in Hex : RegSave(r, h)
    \/ \E r \in FirstWorker, field \in DateInputs : RegCommit(r, field)
    \/ \E r \in FirstWorker, field \in DateInputs : RegCommitStoreFail(r, field)
    \/ \E r \in FirstWorker, filter \in StatusFilters : Search(r, filter)
    \/ \E r \in FirstWorker : SearchStoreFail(r)
    \/ \E r \in FirstWorker : Report(r)
    \/ \E r \in FirstWorker : ReportStoreFail(r)
    \/ \E user_id \in UserIdInputs : generate_member_card(user_id)
    \/ \E user_id \in UserIdInputs : CardStoreFail(user_id)
    \/ \E user_id \in UserIdInputs : verify_member(user_id)
    \/ \E user_id \in UserIdInputs : VerifyStoreFail(user_id)
    \/ home
    \/ HomeStoreFail
    \/ \E username \in UsernameInputs, password \in PasswordInputs : admin_login(username, password)
    \/ \E username \in UsernameInputs : LoginStoreFail(username)
    \/ Tick

SpecService == Init /\ [][NextService]_vars

\* ================================================================== claims
\* The error kind a response carries: the message and the code that the
\* handler put into the body.  The HTTP status line is resp.http.
Kind(resp) ==
    CASE resp.error = "" -> "ok"
      [] resp.error = "unhandled exception" -> "UnhandledFault"
      [] resp.code = 0 /\ resp.http = 401 -> "AuthenticationError"
      [] resp.code = 400 -> "ValidationError"
      [] resp.code = 401 -> "AuthenticationError"
      [] resp.code = 403 /\ resp.error = "Access Forbidden." -> "AuthorizationError"
      [] resp.code = 403 /\ resp.error # "Access Forbidden." -> "StatusError"
      [] resp.code = 404 -> "NotFoundError"
      [] resp.code = 409 -> "ConflictError"
      [] resp.code = 500 /\ resp.error = "Internal Server Error" -> "InternalError"
      [] OTHER -> "StoreUnavailableError"

Holds(nrc) == \E m \in members : m.nrc = nrc

WellFormedDate(field) == field = NoDate \/ (Len(field) = 2 /\ field[1] = "iso")

GoodExtension(photo) ==
    /\ Len(photo) >= 2
    /\ photo[Len(photo)] \in {"png", "jpg", "jpeg", "PNG", "JPG", "JPEG", "Jpeg"}

InFlight(nrc) == \E r \in Req : req[r].pc \in {"save", "commit"} /\ req[r].nrc = nrc

\* C1: of the register requests that carry one national id (gate passed, photo
\* valid, date well formed, store available), exactly one is answered 201 once
\* they have all ended, and the store never holds two rows with that id.
C1_ExactlyOneSucceeds ==
    \A n \in NRC :
        /\ Cardinality({m \in members : m.nrc = n}) <= 1
        /\ succeeded[n] <= 1
        /\ (n \in attempted /\ ~InFlight(n)) => succeeded[n] = 1

\* C2: a register request that reaches the duplicate lookup with a national id
\* a committed row already holds is answered ConflictError, and that step adds
\* no row and writes no photo file.
C2_ConflictBeforeWrite ==
    [][\A r \in Req, nrc \in NRC, photo \in FileNames :
          (RegCheck(r, nrc, photo) /\ Holds(nrc)) =>
              /\ out'.op = "register"
              /\ Kind(out'.resp) = "ConflictError"
              /\ members' = members
              /\ blobs' = blobs
              /\ req'[r].pc = "idle"]_vars

C2_Witness ==
    /\ out.op = "register"
    /\ out.resp.code = 409
    /\ members # {}
    /\ DOMAIN blobs = {PhotoPath(m.photo_filename) : m \in members}

\* C3: when the gate's AdminUser lookup completes, the body of the gated
\* operation is entered iff the header is "Bearer <username of an AdminUser>"
\* and that user's role is in the operation's set; no or an unknown credential
\* is answered AuthenticationError, a role outside the set AuthorizationError,
\* and in both cases the worker never enters the body.
AllowedRoles(op) ==
    IF op = "report" THEN {"SuperAdmin", "ProvincialAdmin"}
    ELSE {"SuperAdmin", "ProvincialAdmin", "DataEntry"}

Resolves(h) == Len(h) = 2 /\ h[1] = "Bearer" /\ h[2] \in {"superadmin", "padmin", "clerk"}

RoleOf(h) ==
    CASE h[2] = "superadmin" -> "SuperAdmin"
      [] h[2] = "padmin"     -> "ProvincialAdmin"
      [] h[2] = "clerk"      -> "DataEntry"

C3_GateIffRoleAllowed ==
    [][\A r \in Req, op \in GatedOps, h \in Headers :
          Gate(r, op, h) =>
              /\ (req'[r].pc = op) <=> (Resolves(h) /\ RoleOf(h) \in AllowedRoles(op))
              /\ ~Resolves(h) =>
                    (Kind(out'.resp) = "AuthenticationError" /\ req'[r].pc = "idle")
              /\ (Resolves(h) /\ RoleOf(h) \notin AllowedRoles(op)) =>
                    (Kind(out'.resp) = "AuthorizationError" /\ req'[r].pc = "idle")]_vars

C3_Witness ==
    /\ \E r \in Req : req[r].pc = "report" /\ req[r].user = "padmin"
    /\ out.op = "report"
    /\ out.by = "gate"
    /\ out.resp.code = 403
    /\ out.resp.data = <<"DataEntry">>

\* the Verification_Result field of a verify response
ResultOf(resp) == IF resp.error = "" /\ Len(resp.data) = 4 THEN resp.data[4] ELSE "none"

\* C4: verify of an existing member answers AUTHENTICATED iff the row's status
\* is Active and its membership_end is today or later, else EXPIRED/INACTIVE.
C4_VerifyIffActiveAndInDate ==
    [][\A u \in UserIdInputs :
          verify_member(u) =>
              \A m \in members :
                  m.user_id = u =>
                      /\ out'.op = "verify"
                      /\ ResultOf(out'.resp) =
                            IF m.status = "Active" /\ m.membership_end >= today
                            THEN "AUTHENTICATED" ELSE "EXPIRED/INACTIVE"]_vars

C4_Witness ==
    /\ out.op = "verify"
    /\ ResultOf(out.resp) = "AUTHENTICATED"
    /\ \E m \in members :
          m.user_id = out.resp.data[1] /\ m.status = "Active" /\ m.membership_end = today

\* C5: in the state a successful register leaves, every verify of the returned
\* id answers AUTHENTICATED when the end date is today or later; a member that
\* is not Active or whose end date has passed stays so, and every verify of it
\* answers EXPIRED/INACTIVE, whatever was answered before.
Lapsed(m, day) == m.status # "Active" \/ day > m.membership_end

C5_RegisterThenVerify ==
    (out.op = "register" /\ out.resp.http = 201) =>
        \A m \in members :
            (m.user_id = out.resp.data[1] /\ m.membership_end >= today) =>
                /\ ENABLED verify_member(m.user_id)
                /\ ~ENABLED (verify_member(m.user_id)
                               /\ ResultOf(out'.resp) # "AUTHENTICATED")

C5_VerifyFollowsRecord ==
    /\ []C5_RegisterThenVerify
    /\ [][\A m \in members :
             Lapsed(m, today) =>
                 /\ \E m2 \in members' : m2.user_id = m.user_id /\ Lapsed(m2, today')
                 /\ verify_member(m.user_id) => ResultOf(out'.resp) = "EXPIRED/INACTIVE"]_vars

C5_Witness ==
    /\ out.op = "verify"
    /\ ResultOf(out.resp) = "EXPIRED/INACTIVE"
    /\ \E m \in members :
          /\ m.user_id = out.resp.data[1]
          /\ m.membership_start <= m.membership_end
          /\ m.status = "Suspended"
          /\ m.membership_end >= today

\* C6: card generation returns the document only for a member whose status is
\* Active when the request runs; StatusError for a member that is not Active,
\* NotFoundError for an unknown id, and then no document.
HasDocument(resp) == resp.error = "" /\ Len(resp.data) > 0 /\ resp.data[1] = "pdf"

C6_CardOnlyForActive ==
    [][\A u \in UserIdInputs :
          generate_member_card(u) =>
              /\ out'.op = "card"
              /\ (\A m \in members : m.user_id # u) =>
                    (Kind(out'.resp) = "NotFoundError" /\ out'.resp.data = << >>)
              /\ \A m \in members :
                    m.user_id = u =>
                        IF m.status = "Active"
                        THEN HasDocument(out'.resp)
                        ELSE /\ Kind(out'.resp) = "StatusError"
                             /\ out'.resp.data = <<m.status>>]_vars

C6_Witness ==
    /\ out.op = "card"
    /\ Kind(out.resp) = "StatusError"
    /\ \E m \in members : m.status = "Expired" /\ out.resp.data = <<m.status>>

\* C7: every rejected request carries its error status on the status line (the
\* code its handler names) and never a 2xx status.
C7_ErrorStatusOnTheWire ==
    (out.op # "none" /\ out.resp.error # "" /\ out.resp.code # 0) =>
        /\ out.resp.http = out.resp.code
        /\ out.resp.http \notin 200..299

\* C8: a register request whose commit is refused because a committed row
\* already holds its national id is answered ConflictError.
C8_CommitConflictIsConflictError ==
    [][\A r \in Req, field \in DateInputs :
          (RegCommit(r, field) /\ WellFormedDate(field) /\ Holds(req[r].nrc)) =>
              Kind(out'.resp) = "ConflictError"]_vars

\* C9: a register request without national id, without photo or with a photo
\* extension outside png/jpg/jpeg is answered ValidationError, also when its
\* national id is already held, and adds no row and writes no photo file.
C9_ValidationFirst ==
    [][\A r \in Req, nrc \in NrcInputs, photo \in PhotoInputs :
          (RegCheck(r, nrc, photo)
              /\ (nrc = NoNrc \/ photo = NoPhoto \/ ~GoodExtension(photo))) =>
              /\ Kind(out'.resp) = "ValidationError"
              /\ members' = members
              /\ blobs' = blobs]_vars

\* C10: member ids are unique across the rows, and no step changes an existing
\* member's row or the photo file stored under the name made from its id.
C10_NothingOverwritten ==
    /\ [](\A m1, m2 \in members : m1.user_id = m2.user_id => m1 = m2)
    /\ [][\A m \in members :
             /\ m \in members'
             /\ PhotoPath(m.photo_filename) \in DOMAIN blobs =>
                   /\ PhotoPath(m.photo_filename) \in DOMAIN blobs'
                   /\ blobs'[PhotoPath(m.photo_filename)] = blobs[PhotoPath(m.photo_filename)]]_vars

\* a step in which the record store refuses the access a request makes
StoreFails ==
    \/ \E r \in Req, op \in GatedOps, h \in Headers : GateStoreFail(r, op, h)
    \/ \E r \in Req, nrc \in NrcInputs, photo \in PhotoInputs : RegCheckStoreFail(r, nrc, photo)
    \/ \E r \in Req, field \in DateInputs : RegCommitStoreFail(r, field)
    \/ \E r \in Req : SearchStoreFail(r)
    \/ \E r \in Req : ReportStoreFail(r)
    \/ \E user_id \in UserIdInputs : CardStoreFail(user_id)
    \/ \E user_id \in UserIdInputs : VerifyStoreFail(user_id)
    \/ HomeStoreFail
    \/ \E username \in UsernameInputs : LoginStoreFail(username)

\* C11: no request ends in an unhandled fault, and a request in which a store
\* access fails - the gate's AdminUser lookup included - is answered with a
\* structured response of the kind StoreUnavailableError.
C11_StoreFailureIsStructured ==
    /\ [](out.op # "none" => Kind(out.resp) # "UnhandledFault")
    /\ [][StoreFails =>
             /\ out'.op # "none"
             /\ Kind(out'.resp) = "StoreUnavailableError"]_vars

\* a register request is answered 201 in this step
RegisterSucceeds ==
    \E r \in Req, field \in DateInputs : RegCommit(r, field) /\ out'.resp.http = 201

\* C12: the rows of campaign_members change only in a step that answers a
\* register request 201, and that step adds exactly one row - status Active,
\* membership_start and last_modified today - and leaves every other row as
\* it was; every other step of every endpoint, a failing register included,
\* leaves all rows as they were.
C12_OnlyRegisterWrites ==
    [][/\ members' # members => RegisterSucceeds
       /\ RegisterSucceeds =>
             /\ members \subseteq members'
             /\ Cardinality(members' \ members) = 1
             /\ \A m \in members' \ members :
                   /\ m.status = "Active"
                   /\ m.membership_start = today
                   /\ m.last_modified = today
                   /\ \A old \in members : old.user_id # m.user_id /\ old.nrc # m.nrc]_vars

C12_Witness ==
    /\ out.op = "register"
    /\ out.resp.http = 201
    /\ \E m, old \in members :
          /\ m.user_id = out.resp.data[1]
          /\ m.membership_start = today
          /\ old # m
          /\ old.membership_start < today
          /\ old.membership_end < today
          /\ old.status = "Active"

\* the requests whose handler has opened its session and not yet returned
Handling == {r \in Req : req[r].pc \in {"save", "commit"}}

\* C13: every open session belongs to a request that is still being handled,
\* so that no session is open once all requests have finished.
C13_SessionsClosed ==
    /\ open_sessions = Cardinality(Handling)
    /\ (\A r \in Req : req[r].pc = "idle") => open_sessions = 0

====
